---- MODULE Spec2Model ----
(***************************************************************************)
(* Model of ConfigManager.run_with_config of config_aider.py: the          *)
(* resolution / synthesis / merge / command-assembly / exec pipeline and   *)
(* the try/except/finally block that removes the temporary files.          *)
(*                                                                         *)
(* Strings are sequences of atoms (an atom is a TLA+ string that is never  *)
(* split further), so that prefix tests, substring tests and textual       *)
(* replacement are computed on the text and not assumed.  A document line  *)
(* "key: value" is the record [key, val].  A file is [exists, content]     *)
(* where content is the sequence of chunks written to it, in write order.  *)
(***************************************************************************)
EXTENDS Integers, Sequences, FiniteSets, TLC

\* ------------------------------------------------------------------ bounds
\* A profile document has at most MaxLines lines.
MaxLines == 3
\* The user passes at most MaxArgs tokens after the alias.
MaxArgs == 3

\* ------------------------------------------------------------ basic values
\* Python's None, for the Optional[str] values of the program.
None == <<"<None>">>

\* Python truthiness of an Optional[str]: None and "" are falsy.
Truthy(s) == s /= None /\ s /= <<>>

Quotes == {"\"", "'"}

\* str.lower() on one atom (only the atoms of the model that have capitals).
Lower(a) == IF a = "OpenRouter/" THEN "openrouter/" ELSE a

\* ------------------------------------------------------------------- paths
ProfilePath == <<"~/.config/config-aider/c3.yml">>
GlobalPath == <<"~/.config/config-aider/GLOBAL_DEFAULTS.yml">>
AliasesPath == <<"~/.config/config-aider/aliases.txt">>
\* The names tempfile.NamedTemporaryFile gives the three temp files.
TempCfgPath == <<"/tmp/tmpC.yml">>
ModelSettingsPath == <<"/tmp/tmpM.json">>
BedrockPath == <<"/tmp/tmpB.json">>

TempPaths == {TempCfgPath, ModelSettingsPath, BedrockPath}
InputPaths == {ProfilePath, GlobalPath, AliasesPath}
Paths == TempPaths \cup InputPaths

\* ------------------------------------------------------------- environment
KeyEnvName == <<"MY_API_KEY">>
RegionEnvName == <<"BEDROCK_REGION">>
AccountEnvName == <<"BEDROCK_ACCOUNT">>
EnvNames == {KeyEnvName, RegionEnvName, AccountEnvName}

SecretValue == <<"s3cr3t">>
RegionValue == <<"us-east-1">>
AccountValue == <<"123456789012">>

\* The environments of the model: each variable is either unset or set.
Environments ==
  { e \in [EnvNames -> {None, SecretValue, RegionValue, AccountValue}] :
      /\ e[KeyEnvName] \in {None, SecretValue}
      /\ e[RegionEnvName] \in {None, RegionValue}
      /\ e[AccountEnvName] \in {None, AccountValue} }

\* --------------------------------------------------------------- documents
Line(k, v) == [key |-> k, val |-> v]

\* The lines a profile document is made of, in document order.
MasterProfile ==
  << Line("model", <<"bedrock/converse/", "anthropic.claude">>),
     Line("model-settings-file", <<".bedrock-inference-profiles.json">>),
     Line("weak-model", <<"openrouter/", "deepseek">>),
     Line("api-key-env", <<"MY_API_KEY">>),
     Line("api-key-env", <<>>),
     Line("api-key-provider", <<"anthropic">>),
     Line("aws-region", <<"<region>">>),
     Line("dark-mode", <<"true">>) >>

RECURSIVE Pick(_, _, _)
\* The lines of doc at the positions in idx, in document order, from i on.
Pick(doc, idx, i) ==
  IF i > Len(doc) THEN <<>>
  ELSE IF i \in idx THEN <<doc[i]>> \o Pick(doc, idx, i + 1)
       ELSE Pick(doc, idx, i + 1)

\* Every profile of at most MaxLines lines taken from MasterProfile.
Profiles ==
  { Pick(MasterProfile, idx, 1) :
      idx \in { s \in SUBSET (1..Len(MasterProfile)) : Cardinality(s) <= MaxLines } }

\* The global defaults documents of the model (when the file exists).
GlobalDocs ==
  { << Line("auto-commits", <<"false">>) >>,
    << Line("aws-arn", <<"<region>", "<account>">>) >> }

Chunk(s, t) == [src |-> s, text |-> t]
File(c) == [exists |-> TRUE, content |-> c]
NoFile == [exists |-> FALSE, content |-> <<>>]

\* The separator written between the two layers: the one character "\n".
Newline == Line("\n", <<>>)

RECURSIVE Flatten(_)
\* The text of a file: its chunks' texts, concatenated in write order.
Flatten(chunks) ==
  IF chunks = <<>> THEN <<>>
  ELSE Head(chunks).text \o Flatten(Tail(chunks))

\* The atoms of a line's text.
LineAtoms(l) == {l.key} \cup {l.val[j] : j \in DOMAIN l.val}

\* substring test  tok in content  on a sequence of lines.
Contains(lines, tok) == \E i \in DOMAIN lines : tok \in LineAtoms(lines[i])

\* --------------------------------------------------------------- variables
VARIABLES
  disk,                    \* the file system: path -> file
  env,                     \* os.environ
  pc,                      \* position in run_with_config
  only_provider,
  extra_args,
  needs_bedrock_profiles,
  bedrock_profiles_path,
  model_settings_file,
  temp_config_path,
  api_key_provider,
  api_key,
  global_defaults_exist,
  effective_config_path,
  standard_args,
  cmd,
  exitCode,                \* the exit status once pc = "exited"
  interrupted,             \* a KeyboardInterrupt has been delivered
  fn,                      \* the helper called on its own, "" inside a run
  arg,                     \* its arguments
  ret                      \* its result, once it has returned

\* The variables of a helper called on its own, outside a run.
call == << fn, arg, ret >>

vars == << disk, env, pc, only_provider, extra_args, needs_bedrock_profiles,
           bedrock_profiles_path, model_settings_file, temp_config_path,
           api_key_provider, api_key, global_defaults_exist,
           effective_config_path, standard_args, cmd, exitCode, interrupted,
           fn, arg, ret >>

\* Read a document: the lines of the file at path p.
ReadLines(p) == Flatten(disk[p].content)


\* ------------------------------------------------------------ pure helpers
\* os.environ.get(name)
EnvGet(name) == IF name \in DOMAIN env THEN env[name] ELSE None

\* value[1:-1] when the value starts and ends with a quote character.
Unquote(v) ==
  IF Len(v) >= 1 /\ v[1] \in Quotes /\ v[Len(v)] \in Quotes
  THEN SubSeq(v, 2, Len(v) - 1)
  ELSE v

\* "<region>" in content or "<account>" in content
HasPlaceholder(lines) == Contains(lines, "<region>") \/ Contains(lines, "<account>")

\* _substitute_bedrock_arn_placeholders calls sys.exit(1) on this content.
SubstituteFails(lines) ==
  /\ HasPlaceholder(lines)
  /\ (~Truthy(EnvGet(RegionEnvName)) \/ ~Truthy(EnvGet(AccountEnvName)))

RECURSIVE ReplaceAtoms(_, _, _)
\* str.replace(old, new) on a value: every atom old becomes the atoms of new.
ReplaceAtoms(v, old, new) ==
  IF v = <<>> THEN <<>>
  ELSE (IF Head(v) = old THEN new ELSE <<Head(v)>>) \o ReplaceAtoms(Tail(v), old, new)

\* str.replace(old, new) on a whole line.
ReplaceInLine(l, old, new) == Line(l.key, ReplaceAtoms(l.val, old, new))

\* _substitute_bedrock_arn_placeholders, where it returns.
Substitute(lines) ==
  IF HasPlaceholder(lines)
  THEN [i \in DOMAIN lines |->
          ReplaceInLine(ReplaceInLine(lines[i], "<region>", EnvGet(RegionEnvName)),
                        "<account>", EnvGet(AccountEnvName))]
  ELSE lines

\* _check_for_bedrock_inference_profiles
CheckForBedrockInferenceProfiles(lines) ==
  Contains(lines, ".bedrock-inference-profiles.json")

RECURSIVE ExtractBedrockModelName(_)
\* _extract_bedrock_model_name: the first model: value under bedrock/converse/.
ExtractBedrockModelName(lines) ==
  IF lines = <<>> THEN None
  ELSE LET l == Head(lines)
           v == Unquote(l.val)
       IN IF l.key = "model" /\ Len(v) >= 1 /\ v[1] = "bedrock/converse/"
          THEN v
          ELSE ExtractBedrockModelName(Tail(lines))

\* _create_bedrock_model_profile
CreateBedrockModelProfile(model_name, region, account) ==
  LET model_id == ReplaceAtoms(model_name, "bedrock/converse/", <<>>)
      arn == <<"arn:aws:bedrock:">> \o region \o <<":">> \o account
             \o <<":inference-profile/">>
             \o (IF Len(model_id) >= 1 /\ model_id[1] = "global."
                 THEN model_id
                 ELSE <<"global.">> \o model_id)
  IN [name |-> model_name, model_id |-> arn, max_tokens |-> 64000,
      cache_control |-> TRUE, accepts_settings |-> <<"thinking_tokens">>]

RECURSIVE OpenRouterModels(_)
\* The scan of _get_model_settings: the openrouter/ values, in document order.
OpenRouterModels(lines) ==
  IF lines = <<>> THEN <<>>
  ELSE LET l == Head(lines)
           v == Unquote(l.val)
           hit == /\ "openrouter/" \in {Lower(a) : a \in LineAtoms(l)}
                  /\ Len(v) >= 1 /\ v[1] = "openrouter/"
       IN (IF hit THEN <<v>> ELSE <<>>) \o OpenRouterModels(Tail(lines))

\* The settings list _get_model_settings serialises.
ModelSettings(models, provider) ==
  [i \in DOMAIN models |->
     [name |-> models[i], order |-> <<provider>>, allow_fallbacks |-> FALSE,
      data_collection |-> "deny", require_parameters |-> TRUE]]

RECURSIVE ApiKeyInfo(_, _, _)
\* _get_api_key_info: the last api-key-env and api-key-provider values.
ApiKeyInfo(lines, var, prov) ==
  IF lines = <<>> THEN <<var, prov>>
  ELSE LET l == Head(lines)
       IN IF l.key = "api-key-env" THEN ApiKeyInfo(Tail(lines), l.val, prov)
          ELSE IF l.key = "api-key-provider" THEN ApiKeyInfo(Tail(lines), var, l.val)
          ELSE ApiKeyInfo(Tail(lines), var, prov)

\* The secret-directive test of _create_temporary_config's filter.
IsSecretDirective(l) == l.key = "api-key-env" \/ l.key = "api-key-provider"

RECURSIVE FilterProfile(_, _)
\* The loop of _create_temporary_config over the profile's lines: secret
\* directives dropped, the inference-profile reference rewritten.
FilterProfile(lines, bpath) ==
  IF lines = <<>> THEN <<>>
  ELSE LET l == Head(lines)
       IN (IF IsSecretDirective(l) THEN <<>>
           ELSE IF Truthy(bpath) /\ ".bedrock-inference-profiles.json" \in LineAtoms(l)
                THEN <<ReplaceInLine(l, ".bedrock-inference-profiles.json", bpath)>>
                ELSE <<l>>)
          \o FilterProfile(Tail(lines), bpath)

\* The index of the first "--only" in args, 0 when there is none.
OnlyIndex(args) ==
  IF \E i \in DOMAIN args : args[i] = <<"--only">>
  THEN CHOOSE i \in DOMAIN args :
         args[i] = <<"--only">> /\ \A j \in 1..(i - 1) : args[j] /= <<"--only">>
  ELSE 0

RECURSIVE ReadStandardRepoArgs(_)
\* _read_standard_repo_args on the lines of .aider-standard-repo-args.
ReadStandardRepoArgs(flines) ==
  IF flines = <<>> THEN <<>>
  ELSE (IF Head(flines).comment THEN <<>> ELSE Head(flines).toks)
       \o ReadStandardRepoArgs(Tail(flines))

\* BuildAiderCommand with the user's tokens put before the standard repo args.
BuildAiderCommand_UserFirst(path, provider, key, msfile, std, extra) ==
  << <<"aider-ce">>, <<"--tui">>, <<"--config">>, path >>
  \o (IF Truthy(key) THEN << <<"--api-key">>, provider \o <<"=">> \o key >> ELSE <<>>)
  \o (IF Truthy(msfile) THEN << <<"--model-settings-file">>, msfile >> ELSE <<>>)
  \o extra
  \o std

\* _build_aider_command
BuildAiderCommand(path, provider, key, msfile, std, extra) ==
  << <<"aider-ce">>, <<"--tui">>, <<"--config">>, path >>
  \o (IF Truthy(key) THEN << <<"--api-key">>, provider \o <<"=">> \o key >> ELSE <<>>)
  \o (IF Truthy(msfile) THEN << <<"--model-settings-file">>, msfile >> ELSE <<>>)
  \o std
  \o extra

\* os.unlink(p) guarded by  p and os.path.exists(p)
UnlinkIfExists(d, p) ==
  IF Truthy(p) /\ p \in DOMAIN d /\ d[p].exists
  THEN [d EXCEPT ![p] = NoFile]
  ELSE d

\* ------------------------------------------------------------------ inputs
UserTokens == { <<"--only">>, <<"Azure">>, <<"--yes">> }

RECURSIVE SeqsUpTo(_, _)
\* The sequences over S of length at most n.
SeqsUpTo(S, n) ==
  IF n = 0 THEN { <<>> }
  ELSE SeqsUpTo(S, n - 1)
       \cup { Append(s, x) : s \in { t \in SeqsUpTo(S, n - 1) : Len(t) = n - 1 }, x \in S }

ArgChoices == SeqsUpTo(UserTokens, MaxArgs)

\* .aider-standard-repo-args: absent, or a comment and two argument lines.
StdArgsFiles ==
  { <<>>,
    << [comment |-> TRUE, toks |-> << <<"#">>, <<"repo">> >>],
       [comment |-> FALSE, toks |-> << <<"--no-auto-commits">> >>],
       [comment |-> FALSE, toks |-> << <<"--read">>, <<"CONVENTIONS.md">> >>] >> }

\* -------------------------------------------------------------------- Init
\* The state when run_with_config is entered: the configuration root holds a
\* profile and maybe a global defaults document, no temp file exists.
Init ==
  /\ \E prof \in Profiles, e \in Environments :
       /\ env = e
       /\ \E g \in {NoFile} \cup { File(<<Chunk("user", d)>>) : d \in GlobalDocs } :
            disk = [p \in Paths |->
                      IF p = ProfilePath THEN File(<<Chunk("user", prof)>>)
                      ELSE IF p = GlobalPath THEN g
                      ELSE IF p = AliasesPath
                      THEN File(<<Chunk("user",
                                  << [comment |-> FALSE, parts |-> <<"dev", "c3">>] >>)>>)
                      ELSE NoFile]
  /\ pc = "parse_only"
  /\ only_provider = None
  /\ extra_args = <<>>
  /\ needs_bedrock_profiles = FALSE
  /\ bedrock_profiles_path = None
  /\ model_settings_file = None
  /\ temp_config_path = None
  /\ api_key_provider = None
  /\ api_key = None
  /\ global_defaults_exist = FALSE
  /\ effective_config_path = None
  /\ standard_args = <<>>
  /\ cmd = <<>>
  /\ exitCode = 0
  /\ interrupted = FALSE
  /\ fn = ""
  /\ arg = <<>>
  /\ ret = <<>>

\* ----------------------------------------------------------------- actions
\* The variables of run_with_config that only some steps assign.
Locals == << only_provider, extra_args, needs_bedrock_profiles,
             bedrock_profiles_path, model_settings_file, temp_config_path,
             api_key_provider, api_key, global_defaults_exist,
             effective_config_path, standard_args, cmd >>

\* sys.exit(1) raised inside the try block: SystemExit passes both except
\* clauses and the finally block runs with the locals as they are.
SysExitInTry ==
  /\ pc' = "finally"
  /\ exitCode' = 1

\* _parse_only_provider(extra_args), called before the try block.
ParseOnlyProvider ==
  /\ pc = "parse_only"
  /\ \E args \in ArgChoices :
       LET i == OnlyIndex(args)
       IN IF i = 0
          THEN /\ only_provider' = None
               /\ extra_args' = args
               /\ pc' = "check_bedrock"
               /\ UNCHANGED exitCode
          ELSE IF i + 1 > Len(args)
          THEN \* IndexError: "--only requires a provider argument"
               /\ pc' = "exited"
               /\ exitCode' = 1
               /\ UNCHANGED << only_provider, extra_args >>
          ELSE /\ only_provider' = args[i + 1]
               /\ extra_args' = SubSeq(args, 1, i - 1) \o SubSeq(args, i + 2, Len(args))
               /\ pc' = "check_bedrock"
               /\ UNCHANGED exitCode
  /\ UNCHANGED << disk, env, needs_bedrock_profiles, bedrock_profiles_path,
                  model_settings_file, temp_config_path, api_key_provider, api_key,
                  global_defaults_exist, effective_config_path, standard_args, cmd,
                  interrupted >>
  /\ UNCHANGED call

\* needs_bedrock_profiles = self._check_for_bedrock_inference_profiles(...)
CheckBedrock ==
  /\ pc = "check_bedrock"
  /\ needs_bedrock_profiles' = CheckForBedrockInferenceProfiles(ReadLines(ProfilePath))
  /\ pc' = IF needs_bedrock_profiles' THEN "gen_bedrock" ELSE "model_settings"
  /\ UNCHANGED << disk, env, only_provider, extra_args, bedrock_profiles_path,
                  model_settings_file, temp_config_path, api_key_provider, api_key,
                  global_defaults_exist, effective_config_path, standard_args, cmd,
                  exitCode, interrupted >>
  /\ UNCHANGED call

\* _generate_bedrock_inference_profiles up to the creation of its temp file:
\* the two environment values and the model name are required.
GenBedrockCheck ==
  /\ pc = "gen_bedrock"
  /\ IF \/ ~Truthy(EnvGet(RegionEnvName))
        \/ ~Truthy(EnvGet(AccountEnvName))
        \/ ~Truthy(ExtractBedrockModelName(ReadLines(ProfilePath)))
     THEN SysExitInTry
     ELSE pc' = "bedrock_create" /\ UNCHANGED exitCode
  /\ UNCHANGED << disk, env, Locals, interrupted >>
  /\ UNCHANGED call

\* tempfile.NamedTemporaryFile(...) in _generate_bedrock_inference_profiles;
\* a failure is caught by the helper's except, which exits.
BedrockCreate ==
  /\ pc = "bedrock_create"
  /\ \E ok \in BOOLEAN :
       IF ok
       THEN /\ disk' = [disk EXCEPT ![BedrockPath] = File(<<>>)]
            /\ pc' = "bedrock_dump"
            /\ UNCHANGED exitCode
       ELSE SysExitInTry /\ UNCHANGED disk
  /\ UNCHANGED << env, Locals, interrupted >>
  /\ UNCHANGED call

\* json.dump, close and return of _generate_bedrock_inference_profiles, and
\* the assignment of the path in run_with_config; on an I/O error the
\* helper's except prints and exits without removing the file.
BedrockDump ==
  /\ pc = "bedrock_dump"
  /\ \E ok \in BOOLEAN :
       IF ok
       THEN LET model_name == ExtractBedrockModelName(ReadLines(ProfilePath))
                profile == CreateBedrockModelProfile(model_name,
                             EnvGet(RegionEnvName), EnvGet(AccountEnvName))
            IN /\ disk' = [disk EXCEPT ![BedrockPath] =
                                         File(<<Chunk("json", <<profile>>)>>)]
               /\ bedrock_profiles_path' = BedrockPath
               /\ pc' = "model_settings"
               /\ UNCHANGED exitCode
       ELSE SysExitInTry /\ UNCHANGED << disk, bedrock_profiles_path >>
  /\ UNCHANGED << env, only_provider, extra_args, needs_bedrock_profiles,
                  model_settings_file, temp_config_path, api_key_provider, api_key,
                  global_defaults_exist, effective_config_path, standard_args, cmd,
                  interrupted >>
  /\ UNCHANGED call

\* _get_model_settings up to the creation of its temp file: None without
\* --only or without an openrouter/ value.
ModelSettingsScan ==
  /\ pc = "model_settings"
  /\ IF ~Truthy(only_provider) \/ OpenRouterModels(ReadLines(ProfilePath)) = <<>>
     THEN pc' = "api_key"
     ELSE pc' = "ms_create"
  /\ UNCHANGED << disk, env, Locals, exitCode, interrupted >>
  /\ UNCHANGED call

\* tempfile.NamedTemporaryFile(...) in _get_model_settings.
ModelSettingsCreate ==
  /\ pc = "ms_create"
  /\ \E ok \in BOOLEAN :
       IF ok
       THEN /\ disk' = [disk EXCEPT ![ModelSettingsPath] = File(<<>>)]
            /\ pc' = "ms_dump"
            /\ UNCHANGED exitCode
       ELSE SysExitInTry /\ UNCHANGED disk
  /\ UNCHANGED << env, Locals, interrupted >>
  /\ UNCHANGED call

\* json.dump, close and return of _get_model_settings and the assignment of
\* the path; on an I/O error the helper unlinks its file and exits.
ModelSettingsDump ==
  /\ pc = "ms_dump"
  /\ \E ok \in BOOLEAN :
       IF ok
       THEN LET settings == ModelSettings(OpenRouterModels(ReadLines(ProfilePath)),
                                          only_provider)
            IN /\ disk' = [disk EXCEPT ![ModelSettingsPath] =
                                         File(<<Chunk("json", settings)>>)]
               /\ model_settings_file' = ModelSettingsPath
               /\ pc' = "api_key"
               /\ UNCHANGED exitCode
       ELSE /\ disk' = UnlinkIfExists(disk, ModelSettingsPath)
            /\ SysExitInTry
            /\ UNCHANGED model_settings_file
  /\ UNCHANGED << env, only_provider, extra_args, needs_bedrock_profiles,
                  bedrock_profiles_path, temp_config_path, api_key_provider, api_key,
                  global_defaults_exist, effective_config_path, standard_args, cmd,
                  interrupted >>
  /\ UNCHANGED call

\* _get_api_key_info followed by _get_api_key_value.
ApiKey ==
  /\ pc = "api_key"
  /\ LET info == ApiKeyInfo(ReadLines(ProfilePath), None, <<"openai">>)
         var == info[1]
     IN /\ api_key_provider' = info[2]
        /\ IF ~Truthy(var)
           THEN /\ api_key' = None
                /\ pc' = "decide"
                /\ UNCHANGED exitCode
           ELSE IF ~Truthy(EnvGet(var))
           THEN /\ SysExitInTry
                /\ UNCHANGED api_key
           ELSE /\ api_key' = EnvGet(var)
                /\ pc' = "decide"
                /\ UNCHANGED exitCode
  /\ UNCHANGED << disk, env, only_provider, extra_args, needs_bedrock_profiles,
                  bedrock_profiles_path, model_settings_file, temp_config_path,
                  global_defaults_exist, effective_config_path, standard_args, cmd,
                  interrupted >>
  /\ UNCHANGED call

\* NeedsTempConfig that forgets the inference-profile rewrite.
NeedsTempConfig_NoBedrock(gde, key, nbp) == gde \/ key /= None

\* needs_temp_config of run_with_config.
NeedsTempConfig(gde, key, nbp) == gde \/ key /= None \/ nbp

\* Lines 416-420: is a merged document needed at all.
Decide ==
  /\ pc = "decide"
  /\ global_defaults_exist' = disk[GlobalPath].exists
  /\ effective_config_path' = ProfilePath
  /\ pc' = IF NeedsTempConfig(global_defaults_exist', api_key, needs_bedrock_profiles)
           THEN "tc_create" ELSE "std_args"
  /\ UNCHANGED << disk, env, only_provider, extra_args, needs_bedrock_profiles,
                  bedrock_profiles_path, model_settings_file, temp_config_path,
                  api_key_provider, api_key, standard_args, cmd, exitCode,
                  interrupted >>
  /\ UNCHANGED call

\* WriteTo with the new chunks put before what was already written.
WriteTo_Prepend(content, chunks) == chunks \o content

\* write() on the open temp file: the chunks go after what was written.
WriteTo(content, chunks) == content \o chunks

\* What lines 326-330 write: the substituted global defaults, then "\n".
GlobalWrites(lines) ==
  << Chunk("global", Substitute(lines)), Chunk("sep", <<Newline>>) >>

\* ProfileWrites that also hands the resolved key to the tool through the
\* merged document, as an api-key line.
ProfileWrites_KeyInFile(lines, bpath) ==
  << Chunk("profile",
           Substitute(FilterProfile(lines, bpath))
           \o (IF Truthy(api_key)
               THEN << Line("api-key", api_key_provider \o <<"=">> \o api_key) >>
               ELSE <<>>)) >>

\* What lines 334-345 write: the filtered, rewritten, substituted profile.
ProfileWrites(lines, bpath) ==
  << Chunk("profile", Substitute(FilterProfile(lines, bpath))) >>

\* tempfile.NamedTemporaryFile(...) in _create_temporary_config.
TempConfigCreate ==
  /\ pc = "tc_create"
  /\ \E ok \in BOOLEAN :
       IF ok
       THEN /\ disk' = [disk EXCEPT ![TempCfgPath] = File(<<>>)]
            /\ pc' = IF global_defaults_exist THEN "tc_global" ELSE "tc_profile"
            /\ UNCHANGED exitCode
       ELSE SysExitInTry /\ UNCHANGED disk
  /\ UNCHANGED << env, Locals, interrupted >>
  /\ UNCHANGED call

\* Lines 323-330: the global defaults layer.  sys.exit(1) from the
\* substitution is a SystemExit, which the helper's  except Exception  does
\* not catch; an I/O error is caught, and the helper unlinks its file.
TempConfigGlobal ==
  /\ pc = "tc_global"
  /\ LET g == ReadLines(GlobalPath)
     IN IF SubstituteFails(g)
        THEN SysExitInTry /\ UNCHANGED disk
        ELSE \E ok \in BOOLEAN :
               IF ok
               THEN /\ disk' = [disk EXCEPT ![TempCfgPath].content =
                                              WriteTo(@, GlobalWrites(g))]
                    /\ pc' = "tc_profile"
                    /\ UNCHANGED exitCode
               ELSE /\ disk' = UnlinkIfExists(disk, TempCfgPath)
                    /\ SysExitInTry
  /\ UNCHANGED << env, Locals, interrupted >>
  /\ UNCHANGED call

\* Lines 334-350 and the assignments of lines 422-423: the profile layer,
\* close, return.
TempConfigProfile ==
  /\ pc = "tc_profile"
  /\ LET lines == ReadLines(ProfilePath)
     IN IF SubstituteFails(FilterProfile(lines, bedrock_profiles_path))
        THEN SysExitInTry
             /\ UNCHANGED << disk, temp_config_path, effective_config_path >>
        ELSE \E ok \in BOOLEAN :
               IF ok
               THEN /\ disk' = [disk EXCEPT ![TempCfgPath].content =
                                  WriteTo(@, ProfileWrites(lines, bedrock_profiles_path))]
                    /\ temp_config_path' = TempCfgPath
                    /\ effective_config_path' = TempCfgPath
                    /\ pc' = "std_args"
                    /\ UNCHANGED exitCode
               ELSE /\ disk' = UnlinkIfExists(disk, TempCfgPath)
                    /\ SysExitInTry
                    /\ UNCHANGED << temp_config_path, effective_config_path >>
  /\ UNCHANGED << env, only_provider, extra_args, needs_bedrock_profiles,
                  bedrock_profiles_path, model_settings_file, api_key_provider,
                  api_key, global_defaults_exist, standard_args, cmd, interrupted >>
  /\ UNCHANGED call

\* standard_args = self._read_standard_repo_args(); an I/O error reaches
\* the outer  except Exception, which exits.
StandardArgs ==
  /\ pc = "std_args"
  /\ \E f \in StdArgsFiles, ok \in BOOLEAN :
       IF ok
       THEN /\ standard_args' = ReadStandardRepoArgs(f)
            /\ pc' = "build"
            /\ UNCHANGED exitCode
       ELSE SysExitInTry /\ UNCHANGED standard_args
  /\ UNCHANGED << disk, env, only_provider, extra_args, needs_bedrock_profiles,
                  bedrock_profiles_path, model_settings_file, temp_config_path,
                  api_key_provider, api_key, global_defaults_exist,
                  effective_config_path, cmd, interrupted >>
  /\ UNCHANGED call

\* cmd = self._build_aider_command(...)
BuildCommand ==
  /\ pc = "build"
  /\ cmd' = BuildAiderCommand(effective_config_path, api_key_provider, api_key,
                              model_settings_file, standard_args, extra_args)
  /\ pc' = "exec"
  /\ UNCHANGED << disk, env, only_provider, extra_args, needs_bedrock_profiles,
                  bedrock_profiles_path, model_settings_file, temp_config_path,
                  api_key_provider, api_key, global_defaults_exist,
                  effective_config_path, standard_args, exitCode, interrupted >>
  /\ UNCHANGED call

\* _execute_aider: os.execvpe replaces the process image and never returns
\* (no except clause, no finally block runs); FileNotFoundError exits.
ExecuteAider ==
  /\ pc = "exec"
  /\ \E found \in BOOLEAN :
       IF found
       THEN pc' = "execed" /\ UNCHANGED exitCode
       ELSE SysExitInTry
  /\ UNCHANGED << disk, env, Locals, interrupted >>
  /\ UNCHANGED call

RECURSIVE Cleanup_EffectivePath(_, _, _)
\* Cleanup that removes the document passed after --config, whatever it is,
\* instead of the merged temp file.
Cleanup_EffectivePath(d, n, k) ==
  IF k > n THEN d
  ELSE Cleanup_EffectivePath(
         UnlinkIfExists(d, << effective_config_path, model_settings_file,
                              bedrock_profiles_path >>[k]), n, k + 1)

RECURSIVE Cleanup(_, _, _)
\* The first n of the guarded unlinks of the finally block, in its order:
\* temp_config_path, model_settings_file, bedrock_profiles_path.
Cleanup(d, n, k) ==
  IF k > n THEN d
  ELSE Cleanup(UnlinkIfExists(d, << temp_config_path, model_settings_file,
                                    bedrock_profiles_path >>[k]), n, k + 1)

\* The finally block, lines 447-460, run to its end, after which the pending
\* SystemExit ends the process.
Finally ==
  /\ pc = "finally"
  /\ disk' = Cleanup(disk, 3, 1)
  /\ pc' = "exited"
  /\ UNCHANGED << env, Locals, exitCode, interrupted >>
  /\ UNCHANGED call

\* The positions inside the try block of run_with_config.
TryPcs == { "check_bedrock", "gen_bedrock", "bedrock_create", "bedrock_dump",
            "model_settings", "ms_create", "ms_dump", "api_key", "decide",
            "tc_create", "tc_global", "tc_profile", "std_args", "build", "exec" }

\* The one KeyboardInterrupt, delivered inside the try block: no helper
\* catches it (it is not an Exception), the outer except clause calls
\* sys.exit(1) and the finally block runs.
InterruptInTry ==
  /\ ~interrupted
  /\ pc \in TryPcs
  /\ interrupted' = TRUE
  /\ SysExitInTry
  /\ UNCHANGED << disk, env, Locals >>
  /\ UNCHANGED call

\* The one KeyboardInterrupt, delivered before the try block: nothing
\* catches it and the interpreter ends with the status of an unhandled SIGINT.
InterruptBeforeTry ==
  /\ ~interrupted
  /\ pc = "parse_only"
  /\ interrupted' = TRUE
  /\ pc' = "exited"
  /\ exitCode' = 130
  /\ UNCHANGED << disk, env, Locals >>
  /\ UNCHANGED call

\* The one KeyboardInterrupt, delivered inside the finally block after n of
\* its three unlinks: the rest of the block is skipped, nothing catches the
\* interrupt and the interpreter ends with the status of an unhandled SIGINT.
InterruptInFinally ==
  /\ ~interrupted
  /\ pc = "finally"
  /\ \E n \in 0..2 : disk' = Cleanup(disk, n, 1)
  /\ interrupted' = TRUE
  /\ pc' = "exited"
  /\ exitCode' = 130
  /\ UNCHANGED << env, Locals >>
  /\ UNCHANGED call

Next ==
  \/ ParseOnlyProvider
  \/ CheckBedrock
  \/ GenBedrockCheck
  \/ BedrockCreate
  \/ BedrockDump
  \/ ModelSettingsScan
  \/ ModelSettingsCreate
  \/ ModelSettingsDump
  \/ ApiKey
  \/ Decide
  \/ TempConfigCreate
  \/ TempConfigGlobal
  \/ TempConfigProfile
  \/ StandardArgs
  \/ BuildCommand
  \/ ExecuteAider
  \/ Finally
  \/ InterruptInTry
  \/ InterruptBeforeTry
  \/ InterruptInFinally

Spec == Init /\ [][Next]_vars

\* -------------------------------------------------------------- type check
TypeOK ==
  /\ pc \in TryPcs \cup {"parse_only", "finally", "exited", "execed"}
  /\ exitCode \in {0, 1, 130}
  /\ interrupted \in BOOLEAN
  /\ DOMAIN disk = Paths

\* ------------------------------------------------- vocabulary of the claims
\* The temp files that exist on disk.
TempFilesOnDisk == { p \in TempPaths : disk[p].exists }

\* The run has replaced the process image: os.execvpe succeeded.
Execed == pc = "execed"

\* The process has terminated without a hand-off.
Exited == pc = "exited"

\* The run has reached command assembly or gone past it on the way to exec.
ReachedCommand == pc \in {"build", "exec", "execed"}

\* The command has been built.
CommandBuilt == pc \in {"exec", "execed"}

\* The atoms of the text of the file at p, whatever was written to it.
FileAtoms(p) ==
  LET entries == Flatten(disk[p].content)
  IN IF p = ModelSettingsPath
     THEN UNION { {entries[i].name[j] : j \in DOMAIN entries[i].name}
                  \cup UNION { {entries[i].order[k][j] : j \in DOMAIN entries[i].order[k]}
                               : k \in DOMAIN entries[i].order }
                  : i \in DOMAIN entries }
     ELSE IF p = BedrockPath
     THEN UNION { {entries[i].name[j] : j \in DOMAIN entries[i].name}
                  \cup {entries[i].model_id[j] : j \in DOMAIN entries[i].model_id}
                  : i \in DOMAIN entries }
     ELSE UNION { LineAtoms(entries[i]) : i \in DOMAIN entries }

\* The atoms of a string.
Atoms(str) == { str[j] : j \in DOMAIN str }

\* The profile document as the run found it.
ProfileLines == ReadLines(ProfilePath)

\* The three conditions under which the claims say a merge is needed.
MergeNeeded ==
  \/ disk[GlobalPath].exists
  \/ Truthy(api_key)
  \/ Truthy(bedrock_profiles_path)

\* ------------------------------------------------------------------ claims

\* C1: on the success path every temp file the run created has been deleted
\* before os.execvpe replaces the process image: where the exec has
\* happened, no temp file of the run exists on disk.
C1_NoTempFileAtExec == Execed => TempFilesOnDisk = {}

\* C2: a run that fails with exit code 1, at whatever stage and with
\* whatever number of temp files already created, leaves no temp file on
\* disk when the process terminates (runs without an interrupt).
C2_NoTempFileAfterFailure ==
  (Exited /\ exitCode = 1 /\ ~interrupted) => TempFilesOnDisk = {}

\* C3: once the secret is resolved, its value occurs in the command only in
\* the token provider=secret that follows --api-key, and it is in the
\* content of no file the run writes (merged config, model settings,
\* inference profiles).
C3_SecretOnlyInApiKeyToken ==
  Truthy(api_key) =>
    /\ \A p \in TempPaths : Atoms(api_key) \cap FileAtoms(p) = {}
    /\ \A i \in DOMAIN cmd :
         Atoms(api_key) \cap Atoms(cmd[i]) /= {} =>
           /\ i > 1
           /\ cmd[i - 1] = <<"--api-key">>
           /\ cmd[i] = api_key_provider \o <<"=">> \o api_key

\* C3 witness: a command carrying the secret, beside a merged file, a
\* model-settings file or an inference-profile file written by the run.
C3_Witness ==
  /\ pc = "exec"
  /\ Truthy(api_key)
  /\ \E i \in DOMAIN cmd : Atoms(api_key) \cap Atoms(cmd[i]) /= {}
  /\ disk[TempCfgPath].exists
  /\ Flatten(disk[TempCfgPath].content) /= <<>>
  /\ disk[ModelSettingsPath].exists

\* C4: for a profile with a line starting with api-key-env: or
\* api-key-provider:, whenever the run reaches command assembly the document
\* passed after --config has no line starting with either directive.
C4_NoDirectiveInEffectiveDocument ==
  (ReachedCommand /\ \E i \in DOMAIN ProfileLines : IsSecretDirective(ProfileLines[i]))
    => \A i \in DOMAIN ReadLines(effective_config_path) :
         ~IsSecretDirective(ReadLines(effective_config_path)[i])

\* C5: when a layer being merged contains <region> or <account> and one of
\* BEDROCK_REGION / BEDROCK_ACCOUNT is unset, the run fails before any file
\* is written: where the substitution of that layer is about to fail, no
\* temp file of the run is on disk.
C5_PlaceholderFailureBeforeAnyWrite ==
  ( \/ pc = "tc_global" /\ SubstituteFails(ReadLines(GlobalPath))
    \/ pc = "tc_profile"
       /\ SubstituteFails(FilterProfile(ProfileLines, bedrock_profiles_path)) )
    => TempFilesOnDisk = {}

\* C6: when the profile's api-key-env names an environment variable that is
\* not set, no state of the run (interrupts aside) has a temp file on disk
\* or the external tool invoked, and the run ends with exit code 1.
C6_MissingSecretBeforeAnyWrite ==
  LET var == ApiKeyInfo(ProfileLines, None, <<"openai">>)[1]
  IN (Truthy(var) /\ ~Truthy(EnvGet(var)) /\ ~interrupted) =>
       /\ TempFilesOnDisk = {}
       /\ ~Execed
       /\ Exited => exitCode = 1

\* C7: when _create_temporary_config has completed, the effective document
\* is the substituted global defaults, one newline, then the filtered,
\* rewritten, substituted profile, every global chunk written before every
\* profile chunk; without global defaults it is the profile part alone.
C7_GlobalBeforeProfile ==
  (Truthy(temp_config_path) /\ disk[TempCfgPath].exists) =>
    LET c == disk[TempCfgPath].content
        profilePart == Substitute(FilterProfile(ProfileLines, bedrock_profiles_path))
    IN /\ \A i, j \in DOMAIN c :
            (c[i].src \in {"global", "sep"} /\ c[j].src = "profile") => i < j
       /\ \E j \in DOMAIN c : c[j].src = "profile"
       /\ IF disk[GlobalPath].exists
          THEN Flatten(c) = Substitute(ReadLines(GlobalPath)) \o <<Newline>> \o profilePart
          ELSE Flatten(c) = profilePart

\* C7 witness: a completed merge of a non-empty global defaults document
\* and a profile whose filtered part is non-empty.
C7_Witness ==
  /\ pc = "exec"
  /\ Truthy(temp_config_path)
  /\ disk[GlobalPath].exists
  /\ Len(disk[TempCfgPath].content) = 3
  /\ disk[TempCfgPath].content[1].text /= <<>>
  /\ disk[TempCfgPath].content[3].text /= <<>>
  /\ \E i \in DOMAIN ProfileLines : IsSecretDirective(ProfileLines[i])

\* C8: an effective-document temp file is created only when global defaults
\* exist, a secret was resolved or an inference-profile file was
\* synthesized, and a run that gets past the merge decision has created it
\* exactly then; otherwise --config is followed by the profile's own path.
C8_MergeOnlyWhenNeeded ==
  /\ disk[TempCfgPath].exists => MergeNeeded
  /\ pc \in {"std_args", "build", "exec", "execed"} =>
       /\ MergeNeeded <=> (disk[TempCfgPath].exists /\ temp_config_path = TempCfgPath)
       /\ effective_config_path = (IF MergeNeeded THEN TempCfgPath ELSE ProfilePath)
  /\ (CommandBuilt /\ ~MergeNeeded) =>
       /\ cmd[4] = ProfilePath
       /\ ~Truthy(model_settings_file) =>
            cmd = << <<"aider-ce">>, <<"--tui">>, <<"--config">>, ProfilePath >>
                  \o standard_args \o extra_args

\* C8 witness: a built command that passes the profile's own path, with user
\* tokens, no temp file having been created.
C8_Witness ==
  /\ pc = "exec"
  /\ ~MergeNeeded
  /\ ~disk[TempCfgPath].exists
  /\ cmd[4] = ProfilePath
  /\ extra_args /= <<>>
  /\ ProfileLines /= <<>>

\* C9: the command is base command, --config and the effective document
\* path, then --api-key provider=secret when a secret was resolved, then
\* --model-settings-file and its path when synthesized, then the standard
\* repo args, then the user's tokens, last and verbatim.
C9_CommandOrder ==
  CommandBuilt =>
    LET k == IF Truthy(api_key) THEN 2 ELSE 0
        m == IF Truthy(model_settings_file) THEN 2 ELSE 0
        s == Len(standard_args)
        u == Len(extra_args)
    IN /\ Len(cmd) = 4 + k + m + s + u
       /\ cmd[1] = <<"aider-ce">> /\ cmd[2] = <<"--tui">>
       /\ cmd[3] = <<"--config">> /\ cmd[4] = effective_config_path
       /\ k = 2 => /\ cmd[5] = <<"--api-key">>
                   /\ cmd[6] = api_key_provider \o <<"=">> \o api_key
       /\ m = 2 => /\ cmd[4 + k + 1] = <<"--model-settings-file">>
                   /\ cmd[4 + k + 2] = model_settings_file
       /\ \A i \in 1..s : cmd[4 + k + m + i] = standard_args[i]
       /\ \A i \in 1..u : cmd[4 + k + m + s + i] = extra_args[i]

\* C9 witness: a command with all five groups present.
C9_Witness ==
  /\ pc = "exec"
  /\ Truthy(api_key)
  /\ Truthy(model_settings_file)
  /\ standard_args /= <<>>
  /\ extra_args /= <<>>
  /\ Len(cmd) >= 12

\* C10: a run in which the interrupt was delivered before the process image
\* was replaced terminates with a non-zero exit code and with every temp
\* file it created deleted.
C10_InterruptCleansUp ==
  (Exited /\ interrupted) => (exitCode /= 0 /\ TempFilesOnDisk = {})

\* ================================================= helpers called on their own
\* The second specification, SpecHelpers, calls one helper of ConfigManager
\* on arguments drawn from bounded sets and records what it returns; no run
\* of run_with_config is in progress.

\* aliases.txt has at most MaxAliasLines lines.
MaxAliasLines == 2

\* The state of the run's variables while a helper is called on its own.
NoRun ==
  /\ disk = [p \in Paths |-> NoFile]
  /\ env = [n \in EnvNames |-> None]
  /\ only_provider = None
  /\ extra_args = <<>>
  /\ needs_bedrock_profiles = FALSE
  /\ bedrock_profiles_path = None
  /\ model_settings_file = None
  /\ temp_config_path = None
  /\ api_key_provider = None
  /\ api_key = None
  /\ global_defaults_exist = FALSE
  /\ effective_config_path = None
  /\ standard_args = <<>>
  /\ cmd = <<>>
  /\ exitCode = 0
  /\ interrupted = FALSE

\* What a helper's call leaves alone.
RunVars == << disk, env, only_provider, extra_args, needs_bedrock_profiles,
              bedrock_profiles_path, model_settings_file, temp_config_path,
              api_key_provider, api_key, global_defaults_exist,
              effective_config_path, standard_args, cmd, exitCode, interrupted >>

\* The helper fn has returned.
Returned(f) == pc = "returned" /\ fn = f

\* ------------------------------------------------------------ alias table
\* Profile and alias names.
Names == { "dev", "prod", "c3" }

\* A line of aliases.txt: its ":"-separated parts, and whether it starts
\* with "#".
AliasLine(c, ps) == [comment |-> c, parts |-> ps]

\* The lines aliases.txt is made of: every  alias:target, a commented-out
\* entry, a line with three parts, a line with no ":" and a blank line.
AliasLines ==
  { AliasLine(FALSE, <<a, t>>) : a \in Names, t \in Names }
  \cup { AliasLine(TRUE, <<"dev", "prod">>),
         AliasLine(FALSE, <<"dev", "prod", "c3">>),
         AliasLine(FALSE, <<"dev">>),
         AliasLine(FALSE, <<>>) }

RECURSIVE GetAliases(_, _)
\* _get_aliases: the dict built from the lines, a later line overwriting an
\* earlier one with the same alias.
GetAliases(lines, acc) ==
  IF lines = <<>> THEN acc
  ELSE LET l == Head(lines)
       IN IF l.parts /= <<>> /\ ~l.comment /\ Len(l.parts) = 2
          THEN GetAliases(Tail(lines),
                 [k \in DOMAIN acc \cup {l.parts[1]} |->
                    IF k = l.parts[1] THEN l.parts[2] ELSE acc[k]])
          ELSE GetAliases(Tail(lines), acc)

\* ResolveConfigName that looks the target up once more.
ResolveConfigName_TwoHops(alias, aliases) ==
  IF alias \in DOMAIN aliases
  THEN (IF aliases[alias] \in DOMAIN aliases
        THEN aliases[aliases[alias]]
        ELSE aliases[alias])
  ELSE alias

\* config_name of _resolve_config_path, lines 247-250.
ResolveConfigName(alias, aliases) ==
  IF alias \in DOMAIN aliases THEN aliases[alias] ELSE alias

\* _resolve_config_path(alias): the profile name, and whether its file
\* exists (when it does not, the helper exits with status 1).
ResolveConfigPath ==
  /\ pc = "call"
  /\ fn = "_resolve_config_path"
  /\ LET config_name == ResolveConfigName(arg.alias, GetAliases(arg.lines, <<>>))
     IN ret' = [config_name |-> config_name,
                is_file |-> config_name \in arg.profiles]
  /\ pc' = "returned"
  /\ UNCHANGED << RunVars, fn, arg >>

\* The calls of _resolve_config_path: a name, an aliases.txt, the profiles
\* that exist in the configuration root.
ResolveCalls ==
  { [alias |-> a, lines |-> ls, profiles |-> {"prod", "c3"}] :
      a \in Names, ls \in SeqsUpTo(AliasLines, MaxAliasLines) }

\* ------------------------------------------------------------ routing pin
\* The document handed to _get_model_settings has at most MaxPinLines lines.
MaxPinLines == 2

\* The lines of those documents: routing-namespace values in lower and in
\* mixed case, a value of another namespace, a line that is no model.
PinLines ==
  { Line("model", <<"openrouter/", "deepseek">>),
    Line("weak-model", <<"openrouter/", "qwen">>),
    Line("editor-model", <<"OpenRouter/", "llama">>),
    Line("model", <<"bedrock/converse/", "anthropic.claude">>),
    Line("dark-mode", <<"true">>) }

\* The calls of _get_model_settings: a document and the --only provider.
PinCalls ==
  { [lines |-> ls, only_provider |-> t] :
      ls \in SeqsUpTo(PinLines, MaxPinLines), t \in {None, <<"Azure">>} }

\* _get_model_settings(config_path, only_provider), without I/O errors: the
\* path of the settings file it wrote, or None.
GetModelSettings ==
  /\ pc = "call"
  /\ fn = "_get_model_settings"
  /\ LET models == OpenRouterModels(arg.lines)
     IN IF ~Truthy(arg.only_provider) \/ models = <<>>
        THEN ret' = None /\ UNCHANGED disk
        ELSE /\ disk' = [disk EXCEPT ![ModelSettingsPath] =
                           File(<<Chunk("json", ModelSettings(models, arg.only_provider))>>)]
             /\ ret' = ModelSettingsPath
  /\ pc' = "returned"
  /\ UNCHANGED << env, Locals, exitCode, interrupted, fn, arg >>

\* ------------------------------------------------------ inference profile
\* A model name is bedrock/converse/ followed by at most MaxModelAtoms atoms.
MaxModelAtoms == 2

\* The atoms a model name is made of after its namespace prefix.
ModelAtoms == { "bedrock/converse/", "global.", "anthropic.claude" }

\* The calls of _create_bedrock_model_profile: the model names that
\* _extract_bedrock_model_name can return, a region, an account.
BedrockCalls ==
  { [model_name |-> <<"bedrock/converse/">> \o rest, region |-> r, account |-> AccountValue] :
      rest \in SeqsUpTo(ModelAtoms, MaxModelAtoms),
      r \in { RegionValue, <<"eu-west-1">> } }

\* _create_bedrock_model_profile(model_name, bedrock_region, bedrock_account)
CreateBedrockProfile ==
  /\ pc = "call"
  /\ fn = "_create_bedrock_model_profile"
  /\ ret' = CreateBedrockModelProfile(arg.model_name, arg.region, arg.account)
  /\ pc' = "returned"
  /\ UNCHANGED << RunVars, fn, arg >>

\* -------------------------------------------------------- quoted values
\* The ways a value v is written in a document: bare, in a matching pair of
\* quotes, or between two different quote characters.
QuoteForms(v) ==
  {v} \cup { <<q1>> \o v \o <<q2>> : q1 \in Quotes, q2 \in Quotes }

\* The documents handed to _get_api_key_info.
ApiKeyInfoCalls ==
  LET envs == { <<Line("api-key-env", e)>> : e \in QuoteForms(<<"MY_API_KEY">>) }
      provs == { <<Line("api-key-provider", q)>> : q \in QuoteForms(<<"anthropic">>) }
  IN { [lines |-> ls] :
         ls \in {<<>>} \cup envs \cup provs \cup { e \o q : e \in envs, q \in provs } }

\* The documents handed to _extract_bedrock_model_name.
ExtractCalls ==
  { [lines |-> <<Line("model", m)>>] :
      m \in QuoteForms(<<"bedrock/converse/", "anthropic.claude">>) }

\* _get_api_key_info(config_path): (api_key_env_var, api_key_provider)
GetApiKeyInfo ==
  /\ pc = "call"
  /\ fn = "_get_api_key_info"
  /\ ret' = ApiKeyInfo(arg.lines, None, <<"openai">>)
  /\ pc' = "returned"
  /\ UNCHANGED << RunVars, fn, arg >>

\* _extract_bedrock_model_name(config_path)
ExtractModelName ==
  /\ pc = "call"
  /\ fn = "_extract_bedrock_model_name"
  /\ ret' = ExtractBedrockModelName(arg.lines)
  /\ pc' = "returned"
  /\ UNCHANGED << RunVars, fn, arg >>

\* ---------------------------------------------------------- SpecHelpers
HelpersInit ==
  /\ NoRun
  /\ pc = "call"
  /\ ret = <<>>
  /\ \/ fn = "_resolve_config_path" /\ arg \in ResolveCalls
     \/ fn = "_get_model_settings" /\ arg \in PinCalls
     \/ fn = "_create_bedrock_model_profile" /\ arg \in BedrockCalls
     \/ fn = "_get_api_key_info" /\ arg \in ApiKeyInfoCalls
     \/ fn = "_extract_bedrock_model_name" /\ arg \in ExtractCalls

HelpersNext ==
  \/ ResolveConfigPath
  \/ GetModelSettings
  \/ CreateBedrockProfile
  \/ GetApiKeyInfo
  \/ ExtractModelName

SpecHelpers == HelpersInit /\ [][HelpersNext]_vars

\* C11: alias resolution is single-hop: a name that is no key of the alias
\* table resolves to itself, and a key resolves to the target of its entry
\* (of the last line, when the file repeats the key), whether or not the
\* target is itself a key; the table may be cyclic.
C11_SingleHopAlias ==
  Returned("_resolve_config_path") =>
    LET ls == arg.lines
        entries == { i \in DOMAIN ls : ~ls[i].comment /\ Len(ls[i].parts) = 2 }
        mine == { i \in entries : ls[i].parts[1] = arg.alias }
    IN IF mine = {}
       THEN ret.config_name = arg.alias
       ELSE \E i \in mine : /\ \A j \in mine : j <= i
                            /\ ret.config_name = ls[i].parts[2]

\* C11 witness: a cyclic table dev -> prod, prod -> dev, resolved for dev.
C11_Witness ==
  /\ Returned("_resolve_config_path")
  /\ arg.alias = "dev"
  /\ arg.lines = << AliasLine(FALSE, <<"dev", "prod">>),
                    AliasLine(FALSE, <<"prod", "dev">>) >>
  /\ ret.config_name = "prod"

RECURSIVE RoutingValues(_)
\* The values of the lines whose value begins with openrouter/ in any
\* letter case, verbatim and in document order.
RoutingValues(lines) ==
  IF lines = <<>> THEN <<>>
  ELSE (IF Head(lines).val /= <<>> /\ Lower(Head(lines).val[1]) = "openrouter/"
        THEN << Head(lines).val >> ELSE <<>>)
       \o RoutingValues(Tail(lines))

\* C12: for a target provider T, _get_model_settings emits one entry per
\* line whose value begins with openrouter/ (prefix in any letter case),
\* value verbatim, in document order, each with order = [T], fallbacks
\* disallowed, data collection denied, parameters required; with no such
\* line it writes no file and returns None.
C12_OneEntryPerRoutingValue ==
  (Returned("_get_model_settings") /\ Truthy(arg.only_provider)) =>
    LET want == RoutingValues(arg.lines)
    IN IF want = <<>>
       THEN ret = None /\ ~disk[ModelSettingsPath].exists
       ELSE /\ ret = ModelSettingsPath
            /\ disk[ModelSettingsPath].exists
            /\ LET got == Flatten(disk[ModelSettingsPath].content)
               IN /\ Len(got) = Len(want)
                  /\ \A i \in DOMAIN got :
                       /\ got[i].name = want[i]
                       /\ got[i].order = << arg.only_provider >>
                       /\ got[i].allow_fallbacks = FALSE
                       /\ got[i].data_collection = "deny"
                       /\ got[i].require_parameters = TRUE

\* C13: for a model name M beginning with bedrock/converse/, region R and
\* account A, the entry's model_id is arn:aws:bedrock:R:A:inference-profile/
\* followed by B, where bare is M without its leading bedrock/converse/ only
\* and B is bare when bare begins with global. and global. + bare otherwise;
\* the entry's name is M.
C13_InferenceProfileArn ==
  Returned("_create_bedrock_model_profile") =>
    LET bare == Tail(arg.model_name)
        B == IF bare /= <<>> /\ bare[1] = "global." THEN bare ELSE <<"global.">> \o bare
    IN /\ ret.name = arg.model_name
       /\ ret.model_id = <<"arn:aws:bedrock:">> \o arg.region \o <<":">> \o arg.account
                         \o <<":inference-profile/">> \o B

\* A value as the document format reads it: without its quotes when it is
\* enclosed in a matching pair of ' or ", unchanged otherwise.
QuotedValue(v) ==
  IF Len(v) >= 2 /\ v[1] \in Quotes /\ v[Len(v)] = v[1]
  THEN SubSeq(v, 2, Len(v) - 1)
  ELSE v

\* C15: the value of model, api-key-env and api-key-provider is read with a
\* matching pair of quotes stripped (api-key-env: "NAME" names the variable
\* NAME, api-key-provider: 'p' gives the provider p), and a value between
\* two different quote characters is read as written.
C15_QuotesStripped ==
  /\ Returned("_get_api_key_info") =>
       \A i \in DOMAIN arg.lines :
         /\ arg.lines[i].key = "api-key-env" => ret[1] = QuotedValue(arg.lines[i].val)
         /\ arg.lines[i].key = "api-key-provider" => ret[2] = QuotedValue(arg.lines[i].val)
  /\ Returned("_extract_bedrock_model_name") =>
       LET v == QuotedValue(arg.lines[1].val)
       IN ret = (IF v[1] = "bedrock/converse/" THEN v ELSE None)

\* C14: no step of a run, on any exit path, writes to, truncates or deletes
\* the profile document, the global defaults document or the alias table;
\* the cleanup in particular leaves the profile alone when the document
\* passed after --config is the profile itself.
C14_InputsNeverMutated ==
  [][\A p \in InputPaths : disk'[p] = disk[p]]_vars

\* C14 witness: a run whose effective document was the profile itself has
\* failed, gone through the whole finally block and exited, and the profile
\* is on disk.
C14_Witness ==
  /\ Exited
  /\ exitCode = 1
  /\ ~interrupted
  /\ effective_config_path = ProfilePath
  /\ model_settings_file = ModelSettingsPath
  /\ disk[ProfilePath].exists
  /\ ProfileLines /= <<>>

\* C16: at most one provider settings document exists at any time of a
\* run: never both the routing-pin model-settings file and the
\* inference-profile file.
C16_AtMostOneProviderSettings ==
  ~(disk[ModelSettingsPath].exists /\ disk[BedrockPath].exists)

====
